---- MODULE Spec2Model ----
(***************************************************************************)
(* Broadcast delivery engine of the admin panel (core/tasks.py, the launch *)
(* handlers of core/views.py, core/admin.py and core/actions.py).          *)
(*                                                                         *)
(* Spec        : one campaign record, the Celery queue of execute_broadcast *)
(*               tasks for it, and the workers that run them, one step per  *)
(*               database or cache operation of the task.                   *)
(* SpecLimiter : TelegramRateLimiter.acquire over the shared send history,  *)
(*               one step per cache operation, with a discrete clock.       *)
(* SpecRun     : one launched campaign and its single task, with the cancel *)
(*               interface as the only other actor.                         *)
(* SpecSend, SpecResolve, SpecFault, SpecProgress, SpecDelete, SpecAction,  *)
(* SpecLong    : the same run with its sends, its recipient resolution,     *)
(*               exceptions, snapshot expiry, delete requests, the admin    *)
(*               action or a long recipient list followed.                  *)
(* SpecSegment : a segment's date conditions evaluated as the days pass.    *)
(* SpecFormat  : prepare_message_text applied to a message body.            *)
(* SpecSchedule: a due scheduled campaign, scheduled_broadcast_check, the   *)
(*               admin's cancel action and one worker.                      *)
(***************************************************************************)
EXTENDS Integers, Sequences, FiniteSets, TLC

(* ------------------------------ bounds -------------------------------- *)
\* Rate and Period are the limiter's rate and period scaled down (the program
\* constructs it with rate 25 and period 1.0 s); Period is in clock ticks.
MaxQueue == 2
MaxRecipients == 11
MaxFailed == 1
Rate == 2
Period == 3
MaxClock == 7
MaxAcquires == 5
MaxRetryAfter == 2
MaxUsers == 2
MaxDay == 8
MaxEvals == 2
MaxLen == 3

(* ------------------------- program constants -------------------------- *)
PollEvery == 10
ProgressUpdates == 100
CheckpointParts == 10

\* The Celery workers that can run tasks of the campaign at the same time.
Workers == {1, 2}
\* The sizes the resolved recipient list can have: none, one, and enough for
\* a second cancellation poll.
RecipientCounts == {0, 1, MaxRecipients}

VARIABLES db, queue, run, progress, response, cancel_k, deliv, audience,
          deleting, clock, history, acq, sends

campaignVars ==
  <<db, queue, run, progress, response, cancel_k, deliv, audience, deleting>>
limiterVars == <<clock, history, acq, sends>>
vars == <<db, queue, run, progress, response, cancel_k, deliv, audience,
          deleting, clock, history, acq, sends>>

(* ------------------------ the durable record --------------------------- *)
\* status "none": no record of the campaign exists (not created yet).
NoRecord ==
  [status |-> "none", total_recipients |-> 0,
   sent_count |-> 0, failed_count |-> 0, last_error |-> ""]

NotTracked == [tracked |-> FALSE, seen |-> FALSE, k |-> 0]
NoCancelYet == [tracked |-> TRUE, seen |-> FALSE, k |-> 0]

NoProgress == [status |-> "none", sent |-> 0, failed |-> 0, total |-> 0]

\* An answer of the messaging API to one request: its kind and, for a 429,
\* the retry_after it names.
Answer(kind, d) == [kind |-> kind, retry_after |-> d]
NoAnswer == Answer("none", 0)

\* History variable deliv, kept only where Init starts it as tracked: the
\* message text of the campaign, the indexes attempted so far in order, what
\* the last send did, and the time until which the run sleeps; and what
\* prepare_message_text made of the text, once it has been called; and, where
\* Init starts writes as counted, the number of Progress Store writes made
\* inside the recipient loop.
NoSend ==
  [first |-> NoAnswer, second |-> NoAnswer, requests |-> <<>>,
   result |-> [success |-> FALSE, blocked |-> FALSE, retry_after |-> 0]]
NotPrepared == [done |-> FALSE, prepared |-> <<>>, parse_mode |-> ""]
NotCounted == [counted |-> FALSE, n |-> 0]
NoDelivery ==
  [tracked |-> FALSE, text |-> <<"b">>, wake |-> 0, attempts |-> <<>>, last |-> NoSend,
   prepared |-> NotPrepared, writes |-> NotCounted]

\* History variable audience, kept only where Init starts it as tracked: the
\* users table, the targeting of the campaign and the recipients resolved;
\* the time in days (timezone.now()) and, for each evaluation of the segment's
\* filter_rules so far, its time and the users it matched; and the users
\* selected in the admin list when send_broadcast_action created the campaign.
NoAudience ==
  [tracked |-> FALSE, users |-> <<>>, targeting |-> <<>>, recipients |-> {},
   resolved |-> FALSE, now |-> 0, evals |-> <<>>, selected |-> {}]

\* deleting: the status a delete request in flight has read from the record,
\* or NoDelete when no request is between its read and its delete.
NoDelete == "idle"

IdleRun ==
  [pc |-> "idle", total |-> 0, idx |-> 0, sent_count |-> 0, failed_count |-> 0,
   cancelled |-> FALSE, last_error |-> "", acquires |-> 0]

(* ------------------------- TelegramRateLimiter ------------------------- *)
\* Time is counted in ticks of the clock; Period is the limiter's period in
\* ticks and Rate its rate. history is the cache entry telegram_send_history,
\* shared by every executor; sends is the record of every timestamp that
\* acquire() has appended (the completions), in order.
Callers == {1, 2}

OffCaller == [pc |-> "off", hist |-> <<>>, wake |-> 0]
ReadyCaller == [pc |-> "ready", hist |-> <<>>, wake |-> 0]

LimiterStart(on) ==
  /\ clock = 0
  /\ history = <<>>
  /\ acq = [c \in Callers |-> IF c \in on THEN ReadyCaller ELSE OffCaller]
  /\ sends = <<>>

SeqMin(h) == CHOOSE t \in {h[i] : i \in DOMAIN h} : \A i \in DOMAIN h : t <= h[i]

\* history = [t for t in history if t > cutoff]
Prune(h, cutoff) == SelectSeq(h, LAMBDA t : t > cutoff)

MustWait_late(h) == Len(h) > Rate

\* if len(history) >= self.rate
MustWait(h) == Len(h) >= Rate

wait_time_twice(h, now) == SeqMin(h) + Period + Period - now

\* wait_time = oldest + self.period - now
wait_time(h, now) == SeqMin(h) + Period - now

InFlight == Cardinality({c \in Callers : acq[c].pc = "wait"})

\* now = time.time(); history = cache.get(...); prune; compute the sleep
acquire_read(c) ==
  /\ acq[c].pc = "ready"
  /\ Len(sends) + InFlight < MaxAcquires
  /\ LET now == clock
         h == Prune(history, now - Period)
         wake == IF MustWait(h) /\ wait_time(h, now) > 0
                 THEN now + wait_time(h, now) ELSE now
     IN acq' = [acq EXCEPT ![c] = [pc |-> "wait", hist |-> h, wake |-> wake]]
  /\ UNCHANGED <<clock, history, sends>>
  /\ UNCHANGED campaignVars

\* after the sleep: history.append(time.time()); cache.set(...)
acquire_record(c) ==
  /\ acq[c].pc = "wait"
  /\ clock >= acq[c].wake
  /\ history' = Append(acq[c].hist, clock)
  /\ sends' = Append(sends, clock)
  /\ acq' = [acq EXCEPT ![c] = ReadyCaller]
  /\ UNCHANGED clock
  /\ UNCHANGED campaignVars

acquire(c) == acquire_read(c) \/ acquire_record(c)

Tick ==
  /\ clock < MaxClock
  /\ clock' = clock + 1
  /\ UNCHANGED <<history, acq, sends>>
  /\ UNCHANGED campaignVars

CampaignInit ==
  /\ db = NoRecord
  /\ queue = 0
  /\ run = [w \in Workers |-> IdleRun]
  /\ progress = NoProgress
  /\ response = "success"
  /\ cancel_k = NotTracked
  /\ deleting = NoDelete
  /\ deliv = NoDelivery
  /\ audience = NoAudience

Init == CampaignInit /\ LimiterStart({})

InitLimiter == CampaignInit /\ \E on \in {{1}, {1, 2}} : LimiterStart(on)

NextLimiter == Tick \/ \E c \in Callers : acquire(c)

SpecLimiter == InitLimiter /\ [][NextLimiter]_vars

(* --------------------------- campaign creation ------------------------- *)
\* broadcasts_api_create: status draft, or scheduled when a scheduled_at is posted.
broadcasts_api_create ==
  /\ db.status = "none"
  /\ \E with_date \in BOOLEAN :
       db' = [NoRecord EXCEPT !.status = IF with_date THEN "scheduled" ELSE "draft"]
  /\ response' = "success"
  /\ UNCHANGED <<queue, run, progress>>
  /\ UNCHANGED <<cancel_k, deliv, audience, deleting, limiterVars>>

\* The users selected in the admin list (queryset): where audience is
\* tracked any set of users of the table, else only their number.
Selections ==
  IF audience.tracked
  THEN {[ids |-> ids, n |-> Cardinality(ids)] : ids \in SUBSET (1..MaxUsers)}
  ELSE {[ids |-> {}, n |-> n] : n \in RecipientCounts}

\* Broadcast.objects.create(..., target_audience='all', ...): no segment.
AllUsersTargeting ==
  [segment |-> "none", filter_rules |-> <<>>, static_user_ids |-> {},
   target_audience |-> "all"]

\* send_broadcast_action: creates the campaign as scheduled with
\* total_recipients = number of selected users, and enqueues its task.
send_broadcast_action ==
  /\ db.status = "none"
  /\ \E queryset \in Selections :
       IF queryset.n = 0
       THEN /\ response' = "refused"
            /\ UNCHANGED <<db, queue, audience>>
       ELSE /\ db' = [NoRecord EXCEPT !.status = "scheduled",
                                      !.total_recipients = queryset.n]
            /\ queue' = queue + 1
            /\ response' = "success"
            /\ audience' = IF audience.tracked
                           THEN [audience EXCEPT !.selected = queryset.ids,
                                                 !.targeting = AllUsersTargeting]
                           ELSE audience
  /\ UNCHANGED <<run, progress>>
  /\ UNCHANGED <<cancel_k, deliv, deleting, limiterVars>>

(* ------------------------------- launch -------------------------------- *)
LaunchAllowed_sent(status) == status \in {"draft", "scheduled", "failed", "sent"}

LaunchAllowed(status) == status \in {"draft", "scheduled", "failed"}

\* The three launch handlers share: update(status='scheduled'); delay(id).
Launch ==
  /\ db.status # "none"
  /\ IF LaunchAllowed(db.status)
     THEN /\ queue < MaxQueue
          /\ db' = [db EXCEPT !.status = "scheduled"]
          /\ queue' = queue + 1
          /\ response' = "success"
     ELSE /\ response' = "refused"
          /\ UNCHANGED <<db, queue>>
  /\ UNCHANGED <<run, progress>>
  /\ UNCHANGED <<cancel_k, deliv, audience, deleting, limiterVars>>

broadcasts_api_launch == Launch

broadcast_launch == Launch

start_broadcast_action == Launch

\* scheduled_broadcast_check: every campaign with status scheduled and
\* scheduled_at <= now gets a task; due is whether the campaign has a
\* scheduled_at and it is <= now at this tick.
scheduled_broadcast_check ==
  /\ \E due \in BOOLEAN :
       IF db.status = "scheduled" /\ due
       THEN /\ queue < MaxQueue
            /\ queue' = queue + 1
       ELSE UNCHANGED queue
  /\ UNCHANGED <<db, run, progress, response>>
  /\ UNCHANGED <<cancel_k, deliv, audience, deleting, limiterVars>>

(* ------------------------------- cancel -------------------------------- *)
CancelAllowed(status) == status \in {"draft", "scheduled", "sending"}

InLoop(r) == r.pc \in {"poll", "send", "sleep", "checkpoint"}

\* History variable cancel_k: the number k of recipients the run in its
\* loop had processed when the first cancellation of the sending campaign
\* was accepted (seen). It is kept only where Init starts it as tracked.
NoteCancel ==
  LET looping == {w \in Workers : InLoop(run[w])}
  IN IF cancel_k.tracked /\ ~cancel_k.seen /\ db.status = "sending" /\ looping # {}
     THEN LET w == CHOOSE v \in looping : TRUE
          IN [cancel_k EXCEPT !.seen = TRUE,
                              !.k = run[w].sent_count + run[w].failed_count]
     ELSE cancel_k

\* Cancel interface: sets the marker the executor polls for.
broadcasts_api_cancel ==
  /\ db.status # "none"
  /\ IF CancelAllowed(db.status)
     THEN /\ db' = [db EXCEPT !.status = "cancelled"]
          /\ response' = "success"
          /\ cancel_k' = NoteCancel
     ELSE /\ response' = "refused"
          /\ UNCHANGED <<db, cancel_k>>
  /\ UNCHANGED <<queue, run, progress>>
  /\ UNCHANGED <<deliv, audience, deleting, limiterVars>>

\* cancel_broadcast_action: filter(status in draft, scheduled).update(status='draft')
cancel_broadcast_action ==
  /\ db.status # "none"
  /\ db' = IF db.status \in {"draft", "scheduled"}
           THEN [db EXCEPT !.status = "draft"] ELSE db
  /\ response' = "success"
  /\ UNCHANGED <<queue, run, progress>>
  /\ UNCHANGED <<cancel_k, deliv, audience, deleting, limiterVars>>

(* ------------------------- recipient resolution ------------------------ *)
UserIds == 1..MaxUsers

\* A NULL column value; "null" is the marker for it in a rule's "in" list.
Null == "NULL"

\* The users table: for every id the status and the subscription tier.
UserRows ==
  [status : {"active", "blocked"}, subscription_tier : {"premium", "free", "", Null}]

\* One condition of filter_rules: field, operator and the values given
\* ({v} for eq and for the old format without operator, {"true"} or {"false"}
\* for is_null).
Rule(field, op, value) == [field |-> field, op |-> op, value |-> value]

\* The filter_rules of the segments: none, and lists of conditions on the
\* status and on the tier, with every operator the filter treats and one it
\* does not know.
RuleSets ==
  { <<>>,
    <<Rule("subscription_tier", "in", {"premium", "basic"})>>,
    <<Rule("subscription_tier", "in", {"null", "free"})>>,
    <<Rule("subscription_tier", "in", {"premium", "null"})>>,
    <<Rule("subscription_tier", "is_null", {"true"})>>,
    <<Rule("subscription_tier", "is_null", {"false"})>>,
    <<Rule("status", "bare", {"blocked"})>>,
    <<Rule("status", "eq", {"blocked"})>>,
    <<Rule("status", "in", {"blocked", "active"})>>,
    <<Rule("status", "in", {"null", "blocked"})>>,
    <<Rule("status", "ne", {"active"})>>,
    <<Rule("status", "in", {"blocked"}), Rule("subscription_tier", "in", {"null"})>> }

\* The value of a condition on a date: a relative expression '-N unit'
\* (sign "-"), or a date itself (sign "", the day num).
DateValue(sign, num, unit) == [sign |-> sign, num |-> num, unit |-> unit]

\* A condition on a date field.
DateRule(field, op, value) == [field |-> field, op |-> op, value |-> value]

DaysPerWeek == 7
DaysPerMonth == 30

\* A datetime, and the None that parse_relative_time returns otherwise.
At(day) == [none |-> FALSE, day |-> day]
None == [none |-> TRUE, day |-> 0]

\* unit = parts[1].rstrip('s')
rstrip_s(unit) ==
  IF unit \in {"days", "day"} THEN "day"
  ELSE IF unit \in {"weeks", "week"} THEN "week"
  ELSE IF unit \in {"months", "month"} THEN "month"
  ELSE unit

timezone_now_first ==
  IF audience.evals = <<>> THEN audience.now ELSE audience.evals[1].at

\* timezone.now(), in days
timezone_now == audience.now

\* parse_relative_time('-N unit'): now minus N days, weeks or 30-day months;
\* None for any other unit.
parse_relative_time(value) ==
  IF value.sign # "-" THEN None
  ELSE IF rstrip_s(value.unit) = "day" THEN At(timezone_now - value.num)
  ELSE IF rstrip_s(value.unit) = "week" THEN At(timezone_now - value.num * DaysPerWeek)
  ELSE IF rstrip_s(value.unit) = "month" THEN At(timezone_now - value.num * DaysPerMonth)
  ELSE None

\* if isinstance(value, str) and value.startswith('-')
IsRelative(value) == value.sign = "-"

\* field__gte, field__lte, field__lt, field__gt
Compare(op, a, b) ==
  IF op = "gte" THEN a >= b
  ELSE IF op = "lte" THEN a <= b
  ELSE IF op = "lt" THEN a < b
  ELSE a > b

\* The filter() of gte, lte and lt: against the parsed relative time when
\* the value is relative (no filter when it parses to None), else against the
\* value; gt is always against the value.
MatchesDate(v, rule) ==
  IF rule.op # "gt" /\ IsRelative(rule.value)
  THEN LET dt == parse_relative_time(rule.value)
       IN IF dt.none THEN TRUE ELSE Compare(rule.op, v, dt.day)
  ELSE Compare(rule.op, v, rule.value.num)

HasNullMarker_never(value) == FALSE

\* if None in value or 'null' in value
HasNullMarker(value) == "null" \in value

\* Whether the row u passes the filter() that one condition adds.
Matches(u, rule) ==
  LET v == u[rule.field]
  IN IF rule.op \in {"bare", "eq"} THEN v \in rule.value
     ELSE IF rule.op = "in"
     THEN IF HasNullMarker(rule.value)
          THEN \/ v = Null
               \/ v \in rule.value \ {"null"}
               \/ rule.field = "subscription_tier" /\ v = ""
          ELSE v \in rule.value
     ELSE IF rule.op = "is_null"
     THEN IF "true" \in rule.value THEN v = Null ELSE v # Null
     ELSE IF rule.op \in {"gte", "lte", "gt", "lt"}
     THEN MatchesDate(v, rule)
     ELSE TRUE

\* apply_segment_filter: every condition narrows the queryset by a filter().
apply_segment_filter(queryset, users, filter_rules) ==
  {id \in queryset : \A i \in DOMAIN filter_rules : Matches(users[id], filter_rules[i])}

ActiveUsers_all(users) == UserIds

\* users_query = User.objects.filter(status='active')
ActiveUsers(users) == {id \in UserIds : users[id].status = "active"}

\* The targeting of a campaign: its segment (none, one whose row is missing,
\* or present with its filter_rules and static_user_ids) and its
\* target_audience.
Audiences == {"all", "premium", "free"}

Targetings ==
  {[segment |-> "present", filter_rules |-> r, static_user_ids |-> ids,
    target_audience |-> a] : r \in RuleSets, ids \in SUBSET UserIds, a \in Audiences}
  \cup
  {[segment |-> sg, filter_rules |-> <<>>, static_user_ids |-> {},
    target_audience |-> a] : sg \in {"none", "missing"}, a \in Audiences}

SegmentFirst_legacy(t) == t.segment # "none" /\ t.target_audience = "all"

\* if broadcast.segment_id: ... elif broadcast.target_audience == ...
SegmentFirst(t) == t.segment # "none"

\* The recipients execute_broadcast resolves: segment before target_audience.
\* (tier__in=['free', None, ''] matches no NULL: an in-list drops None.)
recipients(users, t) ==
  LET users_query == ActiveUsers(users)
  IN IF SegmentFirst(t)
     THEN IF t.segment = "present" /\ t.filter_rules # <<>>
          THEN apply_segment_filter(users_query, users, t.filter_rules)
          ELSE IF t.segment = "present" /\ t.static_user_ids # {}
          THEN {id \in t.static_user_ids : users[id].status = "active"}
          ELSE users_query
     ELSE IF t.target_audience = "premium"
     THEN {id \in users_query : users[id].subscription_tier \in {"premium", "basic"}}
     ELSE IF t.target_audience = "free"
     THEN {id \in users_query : users[id].subscription_tier \in {"free", ""}}
     ELSE users_query

(* --------------------- send_telegram_message_sync ---------------------- *)
\* Message texts, as strings over the tag brackets, the slash and letters.
Texts ==
  { <<"<", "b", ">", "x", "<", "/", "b", ">">>,
    <<"<", ">", "<", "i", ">">>,
    <<"x", "<", "<", "b", ">", ">">> }

\* The answers the API can give to one request; "exception" is a timeout or
\* transport error raised by the request itself.
Responses ==
  {Answer(k, 0) : k \in {"ok", "parse_error", "forbidden_cant", "chat_not_found",
                         "server_error", "exception"}}
  \cup {Answer("rate_limit", d) : d \in 1..MaxRetryAfter}

\* The position of the first ">" after position 1, or 0.
FirstClose(t) ==
  IF \E j \in 2..Len(t) : t[j] = ">"
  THEN CHOOSE j \in 2..Len(t) : t[j] = ">" /\ \A k \in 2..(j - 1) : t[k] # ">"
  ELSE 0

\* re.sub(r'<[^>]+>', '', text): leftmost matches, not overlapping.
RECURSIVE StripTags(_)
StripTags(t) ==
  IF t = <<>> THEN <<>>
  ELSE IF t[1] = "<" /\ FirstClose(t) >= 3
       THEN StripTags(SubSeq(t, FirstClose(t) + 1, Len(t)))
       ELSE <<t[1]>> \o StripTags(Tail(t))

PlainRetry_never(answer) == FALSE

\* not data.get('ok') and ('parse' in error_desc or 'entities' in error_desc
\* or "can't" in error_desc): a parse error ("can't parse entities") and also
\* the 403 "bot can't initiate conversation with a user".
PlainRetry(answer) == answer.kind \in {"parse_error", "forbidden_cant"}

\* make_request(msg_text, use_parse_mode)
make_request(msg_text, use_parse_mode) ==
  [text |-> msg_text, parse_mode |-> use_parse_mode]

\* The result dict built from the last answer.
SendResult(answer) ==
  IF answer.kind = "ok"
  THEN [success |-> TRUE, blocked |-> FALSE, retry_after |-> 0]
  ELSE IF answer.kind = "rate_limit"
  THEN [success |-> FALSE, blocked |-> FALSE, retry_after |-> answer.retry_after]
  ELSE [success |-> FALSE,
        blocked |-> answer.kind \in {"parse_error", "forbidden_cant", "chat_not_found"},
        retry_after |-> 0]

\* send_telegram_message_sync: the requests it makes and the result it
\* returns, when the API answers first, and second to the plain-text retry.
send_telegram_message_sync(text, first, second) ==
  IF first.kind # "exception" /\ PlainRetry(first)
  THEN [requests |-> <<make_request(text, TRUE), make_request(StripTags(text), FALSE)>>,
        result |-> SendResult(second)]
  ELSE [requests |-> <<make_request(text, TRUE)>>, result |-> SendResult(first)]

\* The pairs of answers a send can meet: a second answer only when the first
\* leads to the plain-text retry.
AllAnswers ==
  {<<f, s>> \in Responses \X (Responses \cup {NoAnswer}) :
     PlainRetry(f) <=> s # NoAnswer}

\* Where deliv is not tracked, one answer for each way the run goes on: a
\* send that succeeds and one that fails.
FewAnswers ==
  {<<Answer("ok", 0), NoAnswer>>, <<Answer("chat_not_found", 0), NoAnswer>>}

ApiAnswers == IF deliv.tracked THEN AllAnswers ELSE FewAnswers

(* ------------------------- MarkdownV2 helpers -------------------------- *)
\* A text is the sequence of its characters.
\* escape_chars = r'_*[]()~`>#+-=|{}.!'
\* (Backtick stands for the character `, which a string here cannot hold.)
Backtick == "BACKTICK"
escape_chars ==
  {"_", "*", "[", "]", "(", ")", "~", Backtick, ">", "#", "+", "-", "=", "|", "{", "}",
   ".", "!"}

Backslash == "\\"

\* if char in escape_chars: result.append('\\'); result.append(char)
EscapeOne(char) ==
  IF char \in escape_chars THEN <<Backslash, char>> ELSE <<char>>

RECURSIVE escape_markdown_v2(_)
escape_markdown_v2(text) ==
  IF text = <<>> THEN <<>>
  ELSE EscapeOne(Head(text)) \o escape_markdown_v2(Tail(text))

LowerCase ==
  <<"a", "b", "c", "d", "e", "f", "g", "h", "i", "j", "k", "l", "m",
    "n", "o", "p", "q", "r", "s", "t", "u", "v", "w", "x", "y", "z">>
UpperCase ==
  <<"A", "B", "C", "D", "E", "F", "G", "H", "I", "J", "K", "L", "M",
    "N", "O", "P", "Q", "R", "S", "T", "U", "V", "W", "X", "Y", "Z">>
Digits == {"0", "1", "2", "3", "4", "5", "6", "7", "8", "9"}

\* re.IGNORECASE: characters are compared by their lower case.
Lower(c) ==
  IF \E i \in DOMAIN UpperCase : UpperCase[i] = c
  THEN LowerCase[CHOOSE i \in DOMAIN UpperCase : UpperCase[i] = c]
  ELSE c

\* \w of the regular expressions
WordChar(c) ==
  \/ \E i \in DOMAIN LowerCase : LowerCase[i] = Lower(c)
  \/ c \in Digits
  \/ c = "_"

\* Whether t begins with the lower-case pattern p, case ignored.
StartsWith(t, p) ==
  /\ Len(t) >= Len(p)
  /\ \A i \in DOMAIN p : Lower(t[i]) = p[i]

\* The position of the first "<" of t at or after from, or 0.
FirstOpen(t, from) ==
  IF \E j \in from..Len(t) : t[j] = "<"
  THEN CHOOSE j \in from..Len(t) : t[j] = "<" /\ \A k \in from..(j - 1) : t[k] # "<"
  ELSE 0

\* html_pattern = r'<(b|i|u|s|code|a|strong|em|strike)\b[^>]*>'
HtmlTagNames ==
  { <<"b">>, <<"i">>, <<"u">>, <<"s">>, <<"c", "o", "d", "e">>, <<"a">>,
    <<"s", "t", "r", "o", "n", "g">>, <<"e", "m">>,
    <<"s", "t", "r", "i", "k", "e">> }

\* has_html = bool(re.search(html_pattern, text, re.IGNORECASE))
has_html(text) ==
  \E i \in DOMAIN text, name \in HtmlTagNames :
    /\ text[i] = "<"
    /\ StartsWith(SubSeq(text, i + 1, Len(text)), name)
    /\ LET k == i + Len(name) + 1
       IN /\ k <= Len(text)
          /\ ~WordChar(text[k])
          /\ \E j \in k..Len(text) : text[j] = ">"

\* The tags convert_html_to_markdown_v2 goes through, in its order, each with
\* its MarkdownV2 marker.
FormatTags ==
  << [tag |-> <<"b">>, md_char |-> "*"],
     [tag |-> <<"s", "t", "r", "o", "n", "g">>, md_char |-> "*"],
     [tag |-> <<"i">>, md_char |-> "_"],
     [tag |-> <<"e", "m">>, md_char |-> "_"],
     [tag |-> <<"c", "o", "d", "e">>, md_char |-> Backtick],
     [tag |-> <<"s">>, md_char |-> "~"],
     [tag |-> <<"s", "t", "r", "i", "k", "e">>, md_char |-> "~"] >>

OpenTag(tag) == <<"<">> \o tag \o <<">">>
CloseTag(tag) == <<"<", "/">> \o tag \o <<">">>

\* A match of pattern = rf'<{tag}>([^<]*)</{tag}>' at the start of t: its
\* group 1 and the text after it.
NoMatch == [ok |-> FALSE, content |-> <<>>, rest |-> <<>>]
TagMatch(t, tag) ==
  IF ~StartsWith(t, OpenTag(tag)) THEN NoMatch
  ELSE LET n == Len(OpenTag(tag))
           p == FirstOpen(t, n + 1)
       IN IF p > 0 /\ StartsWith(SubSeq(t, p, Len(t)), CloseTag(tag))
          THEN [ok |-> TRUE, content |-> SubSeq(t, n + 1, p - 1),
                rest |-> SubSeq(t, p + Len(CloseTag(tag)), Len(t))]
          ELSE NoMatch

\* What the f-string of the first loop puts for {re.finditer(...).__next__}:
\* the repr of a bound method, "<method-wrapper '__next__' of
\* callable_iterator object at 0x...>"; the characters between its brackets
\* are one element here (none of them is a bracket).
MethodWrapperRepr == <<"<", "method-wrapper '__next__' of callable_iterator object at 0x", ">">>

\* f"__FORMAT_{tag}_{re.finditer(pattern, text, re.IGNORECASE).__next__}__"
FormatPlaceholder(tag) ==
  <<"_", "_", "F", "O", "R", "M", "A", "T", "_">> \o tag \o <<"_">>
  \o MethodWrapperRepr \o <<"_", "_">>

\* replace_tag: f"{char}{content}{char}" with the content escaped
replace_tag(content, char) == <<char>> \o escape_markdown_v2(content) \o <<char>>

\* What re.sub puts for a match: in the first loop ("placeholder") the
\* f-string above, in the second ("markdown") replace_tag.
Replacement(f, content, pass) ==
  IF pass = "placeholder" THEN FormatPlaceholder(f.tag)
  ELSE replace_tag(content, f.md_char)

\* text = re.sub(pattern, ..., text, flags=re.IGNORECASE) for one tag
RECURSIVE SubTag(_, _, _)
SubTag(t, f, pass) ==
  IF t = <<>> THEN <<>>
  ELSE LET m == TagMatch(t, f.tag)
       IN IF m.ok
          THEN Replacement(f, m.content, pass) \o SubTag(m.rest, f, pass)
          ELSE <<Head(t)>> \o SubTag(Tail(t), f, pass)

\* One loop over the tags, from the k-th on.
RECURSIVE SubTagsFrom(_, _, _)
SubTagsFrom(t, k, pass) ==
  IF k > Len(FormatTags) THEN t
  ELSE SubTagsFrom(SubTag(t, FormatTags[k], pass), k + 1, pass)

\* convert_html_to_markdown_v2. No text here has the quotes or the "=" of
\* <a href="...">, so links is empty and its placeholders are none: the
\* first loop over the tags, the second, then re.sub(r'<[^>]+>', '', text).
convert_html_to_markdown_v2(text) ==
  StripTags(SubTagsFrom(SubTagsFrom(text, 1, "placeholder"), 1, "markdown"))

\* prepare_message_text: (prepared, 'MarkdownV2')
prepare_message_text(text) ==
  [prepared |-> IF has_html(text)
                THEN convert_html_to_markdown_v2(text)
                ELSE escape_markdown_v2(text),
   parse_mode |-> "MarkdownV2"]

(* ------------------------- execute_broadcast --------------------------- *)
update_broadcast_progress(sent, failed, total, status) ==
  [status |-> status, sent |-> sent, failed |-> failed, total |-> total]

\* Broadcast.objects.filter(id=broadcast_id).update(...): the row with the
\* update applied when there is one, and nothing when it has been deleted.
IfExists(d, updated) == IF d.status = "none" THEN d ELSE updated

TokenMissingUpdate_reset(d) ==
  [d EXCEPT !.status = "failed", !.last_error = "no_token",
            !.sent_count = 0, !.failed_count = 0]

TokenMissingUpdate(d) ==
  IfExists(d, [d EXCEPT !.status = "failed", !.last_error = "no_token"])

ZeroRecipientsUpdate(d) ==
  IfExists(d, [d EXCEPT !.status = "sent", !.total_recipients = 0, !.sent_count = 0])

SendingUpdate(d, total) ==
  IfExists(d, [d EXCEPT !.status = "sending", !.total_recipients = total,
                        !.sent_count = 0, !.failed_count = 0])

CheckpointUpdate(d, sent, failed) ==
  IfExists(d, [d EXCEPT !.sent_count = sent, !.failed_count = failed])

FinalUpdate(d, cancelled, sent, failed, last_error) ==
  IfExists(d, [d EXCEPT !.status = IF cancelled THEN "cancelled" ELSE "sent",
                        !.sent_count = sent, !.failed_count = failed,
                        !.last_error = IF cancelled THEN "stopped_by_user"
                                       ELSE last_error])

Max(a, b) == IF a >= b THEN a ELSE b

progress_interval(total) == Max(1, total \div ProgressUpdates)

ProgressDue_always(idx, total) == TRUE

ProgressDue(idx, total) ==
  idx % progress_interval(total) = 0 \/ idx = total - 1

CheckpointDue(idx, total) ==
  ProgressDue(idx, total) /\ idx % (total \div CheckpointParts + 1) = 0

PollDue(idx) == idx % PollEvery = 0

LoopPc_early(idx, total) ==
  IF idx >= total - 1 THEN "final"
  ELSE IF PollDue(idx) THEN "poll" ELSE "send"

\* Where the for loop stands when it reaches index idx.
LoopPc(idx, total) ==
  IF idx >= total THEN "final"
  ELSE IF PollDue(idx) THEN "poll" ELSE "send"

\* A worker takes a task off the queue: Broadcast.objects.get (the task
\* returns when the record does not exist), then the credential check, which
\* ends the run with status failed.
TaskStart(w) ==
  /\ run[w].pc = "idle"
  /\ \A v \in Workers : v < w => run[v].pc # "idle"
  /\ queue > 0
  /\ queue' = queue - 1
  /\ \E bot_token \in BOOLEAN :
       IF db.status = "none"
       THEN UNCHANGED <<db, run>>
       ELSE IF ~bot_token
       THEN /\ db' = TokenMissingUpdate(db)
            /\ run' = [run EXCEPT ![w] = IdleRun]
       ELSE /\ run' = [run EXCEPT ![w] = [IdleRun EXCEPT !.pc = "resolve"]]
            /\ UNCHANGED db
  /\ UNCHANGED <<progress, response>>
  /\ UNCHANGED <<cancel_k, deliv, audience, deleting, limiterVars>>

\* The lengths the resolved list can have: that of the list resolved from
\* the users and the targeting where audience is tracked, else any of
\* RecipientCounts.
ResolvedCounts ==
  IF audience.tracked
  THEN {Cardinality(recipients(audience.users, audience.targeting))}
  ELSE RecipientCounts

\* recipients = list(users_query...), then either the zero-recipient update
\* and return, or the update to sending.
ResolveRecipients(w) ==
  /\ run[w].pc = "resolve"
  /\ \E total \in ResolvedCounts :
       IF total = 0
       THEN /\ db' = ZeroRecipientsUpdate(db)
            /\ run' = [run EXCEPT ![w] = IdleRun]
       ELSE /\ db' = SendingUpdate(db, total)
            /\ run' = [run EXCEPT ![w].pc = LoopPc(0, total), ![w].total = total]
  /\ audience' =
       IF audience.tracked
       THEN [audience EXCEPT
               !.recipients = recipients(audience.users, audience.targeting),
               !.resolved = TRUE]
       ELSE audience
  /\ UNCHANGED <<queue, progress, response>>
  /\ UNCHANGED <<cancel_k, deliv, deleting, limiterVars>>

\* if idx % 10 == 0: refresh_from_db(); cancelled -> break. When the record
\* has been deleted refresh_from_db() raises DoesNotExist, which nothing
\* catches: the task ends there.
PollCancel(w) ==
  /\ run[w].pc = "poll"
  /\ run' = IF db.status = "none"
            THEN [run EXCEPT ![w] = IdleRun]
            ELSE IF db.status = "cancelled"
            THEN [run EXCEPT ![w].cancelled = TRUE, ![w].pc = "final"]
            ELSE [run EXCEPT ![w].pc = "send"]
  /\ UNCHANGED <<db, queue, progress, response>>
  /\ UNCHANGED <<cancel_k, deliv, audience, deleting, limiterVars>>

next_index_skip(idx) == idx + 2

\* for idx, telegram_id in enumerate(recipients): the index after idx.
next_index(idx) == idx + 1

\* The run record r once the iteration at r.idx has counted its outcome and
\* passed the progress update: at the checkpoint, or at the next index.
AfterCount(r) ==
  [r EXCEPT !.pc = IF CheckpointDue(r.idx, r.total)
                   THEN "checkpoint"
                   ELSE LoopPc(next_index(r.idx), r.total),
            !.idx = IF CheckpointDue(r.idx, r.total)
                    THEN r.idx ELSE next_index(r.idx)]

\* The Progress Store after the progress update of the iteration at r.idx.
ProgressAfter(r) ==
  IF ProgressDue(r.idx, r.total)
  THEN update_broadcast_progress(r.sent_count, r.failed_count, r.total, "sending")
  ELSE progress

\* The history d after the progress update of the iteration at r.idx: one
\* more write where the update is due and writes are counted.
NoteWrite(d, r) ==
  IF d.writes.counted /\ ProgressDue(r.idx, r.total)
  THEN [d EXCEPT !.writes.n = @ + 1] ELSE d

CountOutcome_both(r, result) ==
  [r EXCEPT !.acquires = r.acquires + 1,
            !.sent_count = @ + 1,
            !.failed_count = IF result.success THEN @ ELSE @ + 1,
            !.last_error = IF result.success THEN @ ELSE "send_error"]

\* if result['success']: sent_count += 1
\* else: failed_count += 1; last_error = result.get('error')
CountOutcome(r, result) ==
  [r EXCEPT !.acquires = r.acquires + 1,
            !.sent_count = IF result.success THEN @ + 1 ELSE @,
            !.failed_count = IF result.success THEN @ ELSE @ + 1,
            !.last_error = IF result.success THEN @ ELSE "send_error"]

\* rate_limiter.acquire(); send; count the outcome; then the sleep of
\* retry_after, if any, and the progress snapshot. Where deliv is tracked time
\* is followed and the sleep is a place of its own, left by RetryAfterSleep;
\* elsewhere the sleep is part of this step.
SendOne(w) ==
  /\ run[w].pc = "send"
  /\ \E answers \in ApiAnswers :
       LET r == run[w]
           sending == send_telegram_message_sync(deliv.text, answers[1], answers[2])
           result == sending.result
           counted == CountOutcome(r, result)
       IN /\ result.success \/ r.failed_count < MaxFailed
          /\ IF result.retry_after > 0 /\ deliv.tracked
             THEN /\ run' = [run EXCEPT ![w] = [counted EXCEPT !.pc = "sleep"]]
                  /\ UNCHANGED progress
             ELSE /\ run' = [run EXCEPT ![w] = AfterCount(counted)]
                  /\ progress' = ProgressAfter(counted)
          /\ deliv' =
               LET noted ==
                     IF deliv.tracked
                     THEN [deliv EXCEPT
                             !.attempts = Append(@, r.idx),
                             !.last = [first |-> answers[1], second |-> answers[2],
                                       requests |-> sending.requests, result |-> result],
                             !.wake = IF result.retry_after > 0
                                      THEN clock + result.retry_after ELSE @]
                     ELSE deliv
               IN IF result.retry_after > 0 /\ deliv.tracked
                  THEN noted ELSE NoteWrite(noted, counted)
  /\ UNCHANGED <<db, queue, response>>
  /\ UNCHANGED <<cancel_k, audience, deleting, limiterVars>>

SleepOver_atonce == TRUE

\* time.sleep(result['retry_after']) has returned.
SleepOver == clock >= deliv.wake

\* The end of the retry_after sleep, then the progress snapshot.
RetryAfterSleep(w) ==
  /\ run[w].pc = "sleep"
  /\ SleepOver
  /\ run' = [run EXCEPT ![w] = AfterCount(run[w])]
  /\ progress' = ProgressAfter(run[w])
  /\ deliv' = NoteWrite(deliv, run[w])
  /\ UNCHANGED <<db, queue, response>>
  /\ UNCHANGED <<cancel_k, audience, deleting, limiterVars>>

\* the checkpoint of the counters in the durable record
Checkpoint(w) ==
  /\ run[w].pc = "checkpoint"
  /\ db' = CheckpointUpdate(db, run[w].sent_count, run[w].failed_count)
  /\ run' = [run EXCEPT ![w].idx = next_index(run[w].idx),
                        ![w].pc = LoopPc(next_index(run[w].idx), run[w].total)]
  /\ UNCHANGED <<queue, progress, response>>
  /\ UNCHANGED <<cancel_k, deliv, audience, deleting, limiterVars>>

\* the final update of the durable record
FinalWrite(w) ==
  /\ run[w].pc = "final"
  /\ db' = FinalUpdate(db, run[w].cancelled, run[w].sent_count,
                       run[w].failed_count, run[w].last_error)
  /\ run' = [run EXCEPT ![w].pc = "final_progress"]
  /\ UNCHANGED <<queue, progress, response>>
  /\ UNCHANGED <<cancel_k, deliv, audience, deleting, limiterVars>>

\* the final progress snapshot, then the task returns
FinalProgress(w) ==
  /\ run[w].pc = "final_progress"
  /\ progress' = update_broadcast_progress(
                   run[w].sent_count, run[w].failed_count, run[w].total,
                   IF run[w].cancelled THEN "cancelled" ELSE "sent")
  /\ run' = [run EXCEPT ![w] = IdleRun]
  /\ UNCHANGED <<db, queue, response>>
  /\ UNCHANGED <<cancel_k, deliv, audience, deleting, limiterVars>>

execute_broadcast(w) ==
  \/ TaskStart(w)
  \/ ResolveRecipients(w)
  \/ PollCancel(w)
  \/ SendOne(w)
  \/ Checkpoint(w)
  \/ FinalWrite(w)
  \/ FinalProgress(w)

Next ==
  \/ broadcasts_api_create
  \/ send_broadcast_action
  \/ broadcasts_api_launch
  \/ broadcast_launch
  \/ start_broadcast_action
  \/ scheduled_broadcast_check
  \/ broadcasts_api_cancel
  \/ cancel_broadcast_action
  \/ \E w \in Workers : execute_broadcast(w)

Spec == Init /\ [][Next]_vars

(* One run alone: the campaign has been created and launched once (status  *)
(* scheduled, its one task queued); from there only that task runs, and the *)
(* campaign may be cancelled. No second task is ever enqueued.              *)
InitRun ==
  /\ db = [NoRecord EXCEPT !.status = "scheduled"]
  /\ queue = 1
  /\ run = [w \in Workers |-> IdleRun]
  /\ progress = NoProgress
  /\ response = "success"
  /\ cancel_k = NoCancelYet
  /\ deleting = NoDelete
  /\ deliv = NoDelivery
  /\ audience = NoAudience
  /\ LimiterStart({})

NextRun ==
  \/ broadcasts_api_cancel
  \/ execute_broadcast(1)

SpecRun == InitRun /\ [][NextRun]_vars

(* One run alone with its sends followed: the text of the campaign is any  *)
(* of Texts, every answer of the API can come, and time passes.            *)
InitSend ==
  /\ db = [NoRecord EXCEPT !.status = "scheduled"]
  /\ queue = 1
  /\ run = [w \in Workers |-> IdleRun]
  /\ progress = NoProgress
  /\ response = "success"
  /\ cancel_k = NotTracked
  /\ deleting = NoDelete
  /\ \E text \in Texts : deliv = [NoDelivery EXCEPT !.tracked = TRUE, !.text = text]
  /\ audience = NoAudience
  /\ LimiterStart({})

NextSend ==
  \/ Tick
  \/ broadcasts_api_cancel
  \/ execute_broadcast(1)
  \/ RetryAfterSleep(1)

SpecSend == InitSend /\ [][NextSend]_vars

(* The start of one run over any users table and any targeting, up to the  *)
(* resolution of its recipients.                                           *)
InitResolve ==
  /\ db = [NoRecord EXCEPT !.status = "scheduled"]
  /\ queue = 1
  /\ run = [w \in Workers |-> IdleRun]
  /\ progress = NoProgress
  /\ response = "success"
  /\ cancel_k = NotTracked
  /\ deleting = NoDelete
  /\ deliv = NoDelivery
  /\ \E users \in [UserIds -> UserRows], targeting \in Targetings :
       audience = [NoAudience EXCEPT !.tracked = TRUE, !.users = users,
                                     !.targeting = targeting]
  /\ LimiterStart({})

NextResolve ==
  \/ TaskStart(1)
  \/ ResolveRecipients(1)

SpecResolve == InitResolve /\ [][NextResolve]_vars

(* A segment with conditions on date_created, evaluated as the days pass.  *)
\* The days on which the users were created, around day 0.
CreatedDays == {0 - DaysPerMonth, 0 - DaysPerWeek - 1, 0 - DaysPerWeek, 0 - 1, 0, 1}

DatedRows ==
  [status : {"active"}, subscription_tier : {"free"}, date_created : CreatedDays]

\* filter_rules on date_created: relative expressions in days, weeks and
\* months, one in a unit parse_relative_time does not know, and a date.
DateRuleSets ==
  { <<DateRule("date_created", "gte", DateValue("-", 7, "days"))>>,
    <<DateRule("date_created", "gte", DateValue("-", 1, "week"))>>,
    <<DateRule("date_created", "gte", DateValue("-", 1, "month"))>>,
    <<DateRule("date_created", "lte", DateValue("-", 7, "days"))>>,
    <<DateRule("date_created", "lt", DateValue("-", 1, "day"))>>,
    <<DateRule("date_created", "gte", DateValue("-", 1, "year"))>>,
    <<DateRule("date_created", "lte", DateValue("-", 1, "year"))>>,
    <<DateRule("date_created", "gt", DateValue("", 0, ""))>> }

InitSegment ==
  /\ db = NoRecord
  /\ queue = 0
  /\ run = [w \in Workers |-> IdleRun]
  /\ progress = NoProgress
  /\ response = "success"
  /\ cancel_k = NotTracked
  /\ deleting = NoDelete
  /\ deliv = NoDelivery
  /\ \E users \in [UserIds -> DatedRows], filter_rules \in DateRuleSets :
       audience = [NoAudience EXCEPT
                     !.tracked = TRUE, !.users = users,
                     !.targeting = [segment |-> "present", filter_rules |-> filter_rules,
                                    static_user_ids |-> {}, target_audience |-> "all"]]
  /\ LimiterStart({})

\* A day passes.
DayPasses ==
  /\ audience.now < MaxDay
  /\ audience' = [audience EXCEPT !.now = @ + 1]
  /\ UNCHANGED <<db, queue, run, progress, response>>
  /\ UNCHANGED <<cancel_k, deliv, deleting, limiterVars>>

\* update_segment_user_counts, for the segment of the campaign: the active
\* users that its filter_rules match now (or its static ids); evals records
\* the time and the users counted.
update_segment_user_counts ==
  /\ audience.tracked
  /\ Len(audience.evals) < MaxEvals
  /\ LET users == audience.users
         segment == audience.targeting
         users_query == ActiveUsers(users)
         matched ==
           IF segment.filter_rules # <<>>
           THEN apply_segment_filter(users_query, users, segment.filter_rules)
           ELSE {id \in segment.static_user_ids : users[id].status = "active"}
     IN audience' = [audience EXCEPT
                       !.evals = Append(@, [at |-> audience.now, matched |-> matched,
                                            count |-> Cardinality(matched)])]
  /\ UNCHANGED <<db, queue, run, progress, response>>
  /\ UNCHANGED <<cancel_k, deliv, deleting, limiterVars>>

NextSegment ==
  \/ DayPasses
  \/ update_segment_user_counts

SpecSegment == InitSegment /\ [][NextSegment]_vars

(* prepare_message_text applied to a message body.                         *)
\* The characters of the short bodies.
BodyChars == {"<", ">", "/", "b", "x", ".", Backslash}

\* Every text over BodyChars of at most MaxLen characters.
ShortBodies == UNION {[1..n -> BodyChars] : n \in 0..MaxLen}

\* Bodies with one flat tag: <tag>content</tag>rest, the content and the rest
\* being plain spans; with each the text in which the content is kept
\* between the unescaped markers of the tag and every reserved character of
\* the spans is escaped.
PlainContents == { <<"H", "i">>, <<"x", ".">> }
PlainRests ==
  { <<>>, <<".">>, <<" ", "1", "0", "0", "%", " ", "d", "o", "n", "e", "!">> }
FlatTagged ==
  {[body |-> OpenTag(f.tag) \o c \o CloseTag(f.tag) \o rest,
    expected |-> <<f.md_char>> \o escape_markdown_v2(c) \o <<f.md_char>>
                 \o escape_markdown_v2(rest)] :
     f \in {FormatTags[1], FormatTags[3]}, c \in PlainContents, rest \in PlainRests}

Bodies == ShortBodies \cup {f.body : f \in FlatTagged}

InitFormat ==
  /\ db = NoRecord
  /\ queue = 0
  /\ run = [w \in Workers |-> IdleRun]
  /\ progress = NoProgress
  /\ response = "success"
  /\ cancel_k = NotTracked
  /\ deleting = NoDelete
  /\ \E body \in Bodies : deliv = [NoDelivery EXCEPT !.tracked = TRUE, !.text = body]
  /\ audience = NoAudience
  /\ LimiterStart({})

\* prepared, parse_mode = prepare_message_text(text)
PrepareMessage ==
  /\ deliv.tracked
  /\ ~deliv.prepared.done
  /\ LET made == prepare_message_text(deliv.text)
     IN deliv' = [deliv EXCEPT !.prepared = [done |-> TRUE, prepared |-> made.prepared,
                                            parse_mode |-> made.parse_mode]]
  /\ UNCHANGED <<db, queue, run, progress, response>>
  /\ UNCHANGED <<cancel_k, audience, deleting, limiterVars>>

NextFormat == PrepareMessage

SpecFormat == InitFormat /\ [][NextFormat]_vars

(* The admin action on a selection of users, and the run it launches up to *)
(* the resolution of its recipients.                                       *)
InitAction ==
  /\ db = NoRecord
  /\ queue = 0
  /\ run = [w \in Workers |-> IdleRun]
  /\ progress = NoProgress
  /\ response = "success"
  /\ cancel_k = NotTracked
  /\ deleting = NoDelete
  /\ deliv = NoDelivery
  /\ \E users \in [UserIds -> UserRows] :
       audience = [NoAudience EXCEPT !.tracked = TRUE, !.users = users,
                                     !.targeting = AllUsersTargeting]
  /\ LimiterStart({})

NextAction ==
  \/ send_broadcast_action
  \/ TaskStart(1)
  \/ ResolveRecipients(1)

SpecAction == InitAction /\ [][NextAction]_vars

(* ------------------------------- delete -------------------------------- *)
\* broadcast = Broadcast.objects.get(id=broadcast_id): the handler holds the
\* status it has read; 404 when there is no record.
delete_read ==
  /\ deleting = NoDelete
  /\ IF db.status = "none"
     THEN /\ response' = "refused"
          /\ UNCHANGED deleting
     ELSE /\ deleting' = db.status
          /\ UNCHANGED response
  /\ UNCHANGED <<db, queue, run, progress>>
  /\ UNCHANGED <<cancel_k, deliv, audience, limiterVars>>

\* if broadcast.status != 'sending'
DeleteAllowed(status) == status # "sending"

\* broadcast.delete() when the status read was not sending, else the error.
delete_write ==
  /\ deleting # NoDelete
  /\ IF DeleteAllowed(deleting)
     THEN /\ db' = NoRecord
          /\ response' = "success"
     ELSE /\ response' = "refused"
          /\ UNCHANGED db
  /\ deleting' = NoDelete
  /\ UNCHANGED <<queue, run, progress>>
  /\ UNCHANGED <<cancel_k, deliv, audience, limiterVars>>

broadcasts_api_delete == delete_read \/ delete_write

(* One launched campaign, its single task, and delete requests.            *)
NextDelete ==
  \/ broadcasts_api_delete
  \/ execute_broadcast(1)

SpecDelete == InitRun /\ [][NextDelete]_vars

(* The loop of one run over a long recipient list: the run has resolved   *)
(* its recipients and set the status sending.                              *)
LongTotals == {199, 200, 1000}

InitLong ==
  /\ \E total \in LongTotals :
       /\ db = SendingUpdate([NoRecord EXCEPT !.status = "scheduled"], total)
       /\ run = [w \in Workers |->
                  IF w = 1
                  THEN [IdleRun EXCEPT !.pc = LoopPc(0, total), !.total = total]
                  ELSE IdleRun]
  /\ queue = 0
  /\ progress = NoProgress
  /\ response = "success"
  /\ cancel_k = NotTracked
  /\ deleting = NoDelete
  /\ deliv = [NoDelivery EXCEPT !.writes.counted = TRUE]
  /\ audience = NoAudience
  /\ LimiterStart({})

NextLong ==
  \/ PollCancel(1)
  \/ SendOne(1)
  \/ Checkpoint(1)
  \/ FinalWrite(1)
  \/ FinalProgress(1)

SpecLong == InitLong /\ [][NextLong]_vars

(* A scheduled campaign that is due and not yet enqueued, the periodic     *)
(* check, the admin's cancel action and one worker; nothing launches the   *)
(* campaign again.                                                         *)
InitSchedule ==
  /\ db = [NoRecord EXCEPT !.status = "scheduled"]
  /\ queue = 0
  /\ run = [w \in Workers |-> IdleRun]
  /\ progress = NoProgress
  /\ response = "success"
  /\ cancel_k = NotTracked
  /\ deleting = NoDelete
  /\ deliv = NoDelivery
  /\ audience = NoAudience
  /\ LimiterStart({})

NextSchedule ==
  \/ scheduled_broadcast_check
  \/ cancel_broadcast_action
  \/ execute_broadcast(1)

SpecSchedule == InitSchedule /\ [][NextSchedule]_vars

(* ------------------------ unexpected exceptions ------------------------ *)
\* The places of a run after it has set status sending.
SendingPcs == {"poll", "send", "sleep", "checkpoint", "final", "final_progress"}

\* An unexpected exception inside the run (refresh_from_db, the limiter's
\* cache calls, a progress or database update): nothing in execute_broadcast
\* catches it, calls self.retry or names autoretry_for, so the task ends there:
\* the worker is free again, nothing is written, nothing is re-enqueued.
RaiseUnexpected(w) ==
  /\ run[w].pc \in SendingPcs
  /\ run' = [run EXCEPT ![w] = IdleRun]
  /\ UNCHANGED <<db, queue, progress, response>>
  /\ UNCHANGED <<cancel_k, deliv, audience, deleting, limiterVars>>

NextFault ==
  \/ broadcasts_api_cancel
  \/ execute_broadcast(1)
  \/ RaiseUnexpected(1)

SpecFault == InitRun /\ [][NextFault]_vars

(* --------------------------- progress polling -------------------------- *)
\* round(n / total * 100, 1), counted in tenths of a percent: the quotient
\* n * 1000 / total rounded to the nearest integer, a tie to the even one.
RoundTenths(n, total) ==
  LET q == (n * 1000) \div total
      r == (n * 1000) % total
  IN IF 2 * r < total THEN q
     ELSE IF 2 * r > total THEN q + 1
     ELSE IF q % 2 = 0 THEN q ELSE q + 1

\* update_broadcast_progress: round((sent + failed) / total * 100, 1) if total > 0 else 0
percent(sent, failed, total) ==
  IF total > 0 THEN RoundTenths(sent + failed, total) ELSE 0

\* The cache entry as the endpoint returns it (percent is stored with it).
StoredSnapshot(p) ==
  [sent |-> p.sent, failed |-> p.failed, total |-> p.total, status |-> p.status,
   percent |-> percent(p.sent, p.failed, p.total)]

\* broadcast_progress_api: the cache entry when there is one, else a response
\* built from the record with total = total_recipients or 1 and
\* percent = round(sent_count / total * 100, 1).
broadcast_progress_api ==
  IF progress # NoProgress THEN StoredSnapshot(progress)
  ELSE IF db.status = "none" THEN [error |-> "not_found"]
  ELSE LET total == IF db.total_recipients = 0 THEN 1 ELSE db.total_recipients
       IN [sent |-> db.sent_count, failed |-> db.failed_count,
           total |-> db.total_recipients, status |-> db.status,
           percent |-> IF total > 0 THEN RoundTenths(db.sent_count, total) ELSE 0]

\* The cache entry is written with timeout 24 h: once no run rewrites it any
\* more, it expires.
SnapshotExpires ==
  /\ progress # NoProgress
  /\ \A w \in Workers : run[w].pc = "idle"
  /\ progress' = NoProgress
  /\ UNCHANGED <<db, queue, run, response>>
  /\ UNCHANGED <<cancel_k, deliv, audience, deleting, limiterVars>>

NextProgress ==
  \/ broadcasts_api_cancel
  \/ execute_broadcast(1)
  \/ SnapshotExpires

SpecProgress == InitRun /\ [][NextProgress]_vars

(* ======================================================================= *)
(*                               Properties                                *)
(* ======================================================================= *)
Terminal == {"sent", "cancelled"}
Done(d) == d.sent_count + d.failed_count

\* C1: at every instant the durable record has sent_count + failed_count <=
\* total_recipients, and a record whose status is sent has the sum equal to
\* total_recipients (only cancelled may have less).
C1_CountersWithinTotal ==
  db.status # "none" =>
    /\ Done(db) <= db.total_recipients
    /\ db.status = "sent" => Done(db) = db.total_recipients

\* The places of a run from its start to its terminal status write.
ActivePcs == {"resolve", "poll", "send", "sleep", "checkpoint", "final"}

\* C2: at most one execute_broadcast run of the campaign is active (from its
\* start to its terminal status write) at any time.
C2_AtMostOneActiveRun ==
  Cardinality({w \in Workers : run[w].pc \in ActivePcs}) <= 1

\* The number of recorded acquire() completions in the window (t - Period, t].
WindowCount(t) ==
  Cardinality({i \in DOMAIN sends : sends[i] > t - Period /\ sends[i] <= t})

WithinRate == \A i \in DOMAIN sends : WindowCount(sends[i]) <= Rate

\* C3: with several executors calling acquire() on the one shared history,
\* no window of length Period holds more than Rate completions.
C3_SharedHistoryWithinRate == WithinRate

\* C4: for a single caller of acquire(), no window of length Period (taken
\* half-open, (t - Period, t]) holds more than Rate completions.
C4_SingleCallerWithinRate == acq[2].pc = "off" => WithinRate

\* C4 witness: a single caller has completed more than Rate calls, so one of
\* them had to sleep, and some window holds exactly Rate completions.
C4_Witness ==
  /\ acq[2].pc = "off"
  /\ Len(sends) > Rate
  /\ \E i \in DOMAIN sends : WindowCount(sends[i]) = Rate
  /\ sends[Rate + 1] = sends[1] + Period

LaunchRequest == broadcasts_api_launch \/ broadcast_launch \/ start_broadcast_action

C6_TerminalIsFinal ==
  [][ db.status \in Terminal =>
        /\ db'.status = db.status
        /\ db'.total_recipients = db.total_recipients
        /\ db'.sent_count = db.sent_count
        /\ db'.failed_count = db.failed_count ]_vars

\* C7: a run whose sending campaign was cancelled after k processed
\* recipients ends by writing status cancelled with its counts, and
\* k <= sent_count + failed_count <= k + 10.
C7_CancelObserved ==
  (run[1].pc = "final_progress" /\ cancel_k.seen) =>
    /\ run[1].cancelled
    /\ db.status = "cancelled"
    /\ db.sent_count = run[1].sent_count
    /\ db.failed_count = run[1].failed_count
    /\ cancel_k.k <= Done(db)
    /\ Done(db) <= cancel_k.k + PollEvery

\* C8: an accepted cancellation is never lost: once the status is the
\* cancelled marker, the executor never overwrites it with sending or sent.
C8_CancelNeverOverwritten ==
  [][ db.status = "cancelled" => db'.status \notin {"sending", "sent"} ]_vars

\* A task is taken off the queue and returns at once, no worker leaving
\* idle for it: the credential is missing.
NoTokenStep ==
  /\ queue' = queue - 1
  /\ run' = run

\* C9: with the credential missing, execute_broadcast sets status failed with
\* the explanatory last_error and stops: the counters are left unchanged, no
\* recipient is resolved, the limiter is not invoked, nothing is sent, no
\* snapshot is written; and the executor writes failed in no other step.
C9_MissingCredentialFails ==
  [][ /\ NoTokenStep =>
           /\ db' = [db EXCEPT !.status = "failed", !.last_error = "no_token"]
           /\ progress' = progress
      /\ (db'.status = "failed" /\ db.status # "failed") => NoTokenStep
    ]_vars

\* C9 witness: a task found the credential missing after an earlier run had
\* counted recipients: status failed, the counters still those of that run.
C9_Witness ==
  /\ db.status = "failed"
  /\ db.last_error = "no_token"
  /\ db.sent_count > 0
  /\ db.failed_count > 0
  /\ \A w \in Workers : run[w].pc = "idle"

\* The zero-recipient return of a run.
ZeroStep(w) == run[w].pc = "resolve" /\ run'[w].pc = "idle"

\* C10: a run that resolves zero recipients takes the campaign from scheduled
\* directly to sent, with total_recipients, sent_count and failed_count all 0
\* afterwards, and without a call of the limiter.
C10_ZeroRecipients ==
  [][ \A w \in Workers :
        ZeroStep(w) =>
          /\ db.status = "scheduled"
          /\ db'.status = "sent"
          /\ db'.total_recipients = 0
          /\ db'.sent_count = 0
          /\ db'.failed_count = 0
          /\ run[w].acquires = 0 ]_vars

FinalStatuses == {"sent", "cancelled", "failed"}

\* The run of worker w is over at this step.
RunOver(w) == run[w].pc \in SendingPcs /\ run'[w].pc = "idle"

\* C11: a run that has set status sending is never over without a terminal
\* status (sent, cancelled or failed) in the durable record and a final
\* snapshot in the Progress Store, whatever was raised inside the loop.
C11_SendingRunEndsTerminal ==
  [][ \A w \in Workers :
        RunOver(w) =>
          /\ db'.status \in FinalStatuses
          /\ progress'.status \in FinalStatuses ]_vars

\* The run of worker w throws at this step: it is over before its final write.
Thrown(w) ==
  /\ run[w].pc \in {"poll", "send", "sleep", "checkpoint", "final"}
  /\ run'[w].pc = "idle"

\* C12: when the run throws an unexpected error, either the run is retried
\* (its task is enqueued again) or, the retries exhausted, the campaign is
\* put in status failed.
C12_ThrownRunRetriedOrFailed ==
  [][ \A w \in Workers :
        Thrown(w) => (queue' = queue + 1 \/ db'.status = "failed") ]_vars

\* The snapshot update_broadcast_progress writes for the counters and status
\* of the durable record d.
SnapshotOf(d) ==
  update_broadcast_progress(d.sent_count, d.failed_count, d.total_recipients, d.status)

\* The run of worker w ends at this step by returning (zero recipients, or
\* after its final writes).
RunEnds(w) == run[w].pc \in {"resolve", "final_progress"} /\ run'[w].pc = "idle"

\* C15: when a run ends (sent or cancelled), the Progress Store snapshot holds
\* exactly the sent, failed, total and status of the durable record.
C15_FinalSnapshotMatchesRecord ==
  [][ \A w \in Workers : RunEnds(w) => progress' = SnapshotOf(db') ]_vars

\* Caller c enters acquire() at this step: it reads the history and starts
\* its sleep, if any.
AcquireCalled(c) == acq[c].pc = "ready" /\ acq'[c].pc = "wait"

\* Caller c leaves acquire() at this step.
AcquireReturns(c) == acq[c].pc = "wait" /\ acq'[c].pc # "wait"

\* C16: acquire() never rejects and never blocks for ever: a call sleeps at
\* most once, for at most Period, can return as soon as that sleep is over,
\* and returns having recorded its send.
C16_AcquireBoundedWait ==
  [][ \A c \in Callers :
        /\ AcquireCalled(c) =>
               /\ acq'[c].wake >= clock
               /\ acq'[c].wake <= clock + Period
        /\ (acq[c].pc = "wait" /\ clock >= acq[c].wake) => ENABLED acquire_record(c)
        /\ AcquireReturns(c) =>
               /\ acq'[c].pc = "ready"
               /\ sends' = Append(sends, clock) ]_vars

\* C16 witness: a call found Rate sends in the window, the oldest of them at
\* the time of the call, and sleeps the whole Period.
C16_Witness ==
  \E c \in Callers :
    /\ acq[c].pc = "wait"
    /\ Len(acq[c].hist) >= Rate
    /\ acq[c].wake = clock + Period

SendStep(w) == run'[w].acquires = run[w].acquires + 1

\* C13: no outcome of a send (400/403, 429, timeout, transport exception)
\* ends the run: after every send the run goes on, it leaves the loop only
\* past the last index, and a run that did not observe a cancellation has
\* attempted every resolved recipient and ends with status sent.
C13_NoOutcomeEndsRun ==
  [][ \A w \in Workers :
        /\ SendStep(w) =>
              /\ run'[w].pc \in {"poll", "send", "sleep", "checkpoint", "final"}
              /\ run'[w].pc = "final" => run'[w].idx = run[w].total
        /\ (run[w].pc = "final" /\ run'[w].pc = "final_progress"
              /\ ~run[w].cancelled) =>
              /\ Len(deliv.attempts) = run[w].total
              /\ run[w].sent_count + run[w].failed_count = run[w].total
              /\ db'.status = "sent" ]_vars

\* C13 witness: a run of MaxRecipients recipients whose last send failed (429,
\* exception or 400) ended sent with all of them attempted.
C13_Witness ==
  /\ db.status = "sent"
  /\ db.total_recipients = MaxRecipients
  /\ db.failed_count = MaxFailed
  /\ db.sent_count + db.failed_count = MaxRecipients
  /\ Len(deliv.attempts) = MaxRecipients
  /\ deliv.last.first.kind \in {"rate_limit", "exception", "chat_not_found"}

\* C14: within one run the recipients are attempted in the order of the
\* resolved list, index after index, none skipped and none twice, and each
\* attempt is counted exactly once.
C14_AttemptsInOrder ==
  /\ \A i \in DOMAIN deliv.attempts : deliv.attempts[i] = i - 1
  /\ \A w \in Workers :
        (deliv.tracked /\ run[w].pc # "idle") =>
          run[w].sent_count + run[w].failed_count = Len(deliv.attempts)

\* C14 witness: a run has attempted all of MaxRecipients recipients, one of
\* them failing.
C14_Witness ==
  /\ Len(deliv.attempts) = MaxRecipients
  /\ run[1].pc = "final"
  /\ run[1].failed_count > 0
  /\ run[1].sent_count > 0

\* C17: a send answered 429 with retry_after d is counted as failed once, its
\* recipient is not attempted again, and no later send of the run is made
\* before d has passed.
C17_RetryAfterWaited ==
  [][ \A w \in Workers :
        SendStep(w) =>
          /\ clock >= deliv.wake
          /\ \A i \in DOMAIN deliv.attempts : deliv.attempts[i] # run[w].idx
          /\ deliv'.last.result.retry_after > 0 =>
                /\ run'[w].failed_count = run[w].failed_count + 1
                /\ run'[w].sent_count = run[w].sent_count
                /\ deliv'.attempts = Append(deliv.attempts, run[w].idx)
                /\ deliv'.wake = clock + deliv'.last.result.retry_after ]_vars

\* C17 witness: after a 429 the run has waited and made a later send, which
\* succeeded.
C17_Witness ==
  /\ deliv.wake > 0
  /\ clock >= deliv.wake
  /\ run[1].failed_count = 1
  /\ Len(deliv.attempts) >= 2
  /\ deliv.last.result.success

\* The text t holds a markup tag: "<", one or more characters other than
\* ">", then ">".
HasTag(t) ==
  \E i \in DOMAIN t, j \in DOMAIN t :
    /\ t[i] = "<"
    /\ t[j] = ">"
    /\ j >= i + 2
    /\ \A k \in (i + 1)..(j - 1) : t[k] # ">"

\* C18: when the API rejects the formatted payload as unparsable, the send is
\* retried exactly once, as plain text with every tag stripped and without
\* parse_mode; the recipient is counted once, by the outcome of the retry,
\* and the run goes on.
C18_PlainTextRetryOnce ==
  [][ \A w \in Workers :
        (SendStep(w) /\ deliv'.last.first.kind = "parse_error") =>
          /\ Len(deliv'.last.requests) = 2
          /\ deliv'.last.requests[1] = [text |-> deliv.text, parse_mode |-> TRUE]
          /\ deliv'.last.requests[2].parse_mode = FALSE
          /\ ~HasTag(deliv'.last.requests[2].text)
          /\ IF deliv'.last.second.kind = "ok"
             THEN /\ run'[w].sent_count = run[w].sent_count + 1
                  /\ run'[w].failed_count = run[w].failed_count
             ELSE /\ run'[w].sent_count = run[w].sent_count
                  /\ run'[w].failed_count = run[w].failed_count + 1
          /\ run'[w].pc \in {"poll", "send", "sleep", "checkpoint", "final"} ]_vars

\* C18 witness: a text with a tag was rejected as unparsable, the plain-text
\* retry was accepted and the recipient counted as sent.
C18_Witness ==
  /\ HasTag(deliv.text)
  /\ deliv.last.first.kind = "parse_error"
  /\ deliv.last.second.kind = "ok"
  /\ Len(deliv.last.requests) = 2
  /\ deliv.last.requests[2].text # deliv.text
  /\ run[1].sent_count = 1

\* C20: in every targeting mode (segment with filter_rules, with static ids,
\* with neither, target_audience all, premium, free) every resolved recipient
\* is a user whose status is active.
C20_OnlyActiveRecipients ==
  audience.resolved =>
    \A id \in audience.recipients : audience.users[id].status = "active"

\* C20 witness: a segment whose filter_rules name the status blocked resolved
\* a table with a blocked user to the active user alone.
C20_Witness ==
  /\ audience.resolved
  /\ audience.targeting.segment = "present"
  /\ audience.targeting.filter_rules = <<Rule("status", "in", {"blocked", "active"})>>
  /\ audience.users[1].status = "blocked"
  /\ audience.recipients = {2}
  /\ db.status = "sending"

\* C21: when a campaign has both a segment reference and a target_audience,
\* the recipients are those the segment gives: with any other
\* target_audience the same users table resolves to the same list.
C21_SegmentAlone ==
  (audience.resolved /\ audience.targeting.segment # "none") =>
    \A a \in Audiences :
      audience.recipients =
        recipients(audience.users, [audience.targeting EXCEPT !.target_audience = a])

\* C21 witness: a segment for the tiers premium and basic on a campaign whose
\* target_audience is free resolved the premium user and not the free one.
C21_Witness ==
  /\ audience.resolved
  /\ audience.targeting.segment = "present"
  /\ audience.targeting.filter_rules =
       <<Rule("subscription_tier", "in", {"premium", "basic"})>>
  /\ audience.targeting.target_audience = "free"
  /\ audience.users[1] = [status |-> "active", subscription_tier |-> "premium"]
  /\ audience.users[2] = [status |-> "active", subscription_tier |-> "free"]
  /\ audience.recipients = {1}

\* The operators apply_segment_filter has a branch for.
KnownOps == {"in", "eq", "gte", "lte", "gt", "lt", "is_null"}

\* Whether some condition of the rules names an operator outside KnownOps
\* ("bare" is the old format, a condition without operator).
HasUnknownOp(filter_rules) ==
  \E i \in DOMAIN filter_rules : filter_rules[i].op \notin KnownOps \cup {"bare"}

C23_InWithNullMarker ==
  \A field \in {"status", "subscription_tier"}, value \in SUBSET {"null", "premium", "free", "blocked"} :
    ( /\ audience.resolved
      /\ audience.targeting.segment = "present"
      /\ "null" \in value
      /\ audience.targeting.filter_rules = <<Rule(field, "in", value)>> ) =>
      audience.recipients =
        {id \in UserIds :
           /\ audience.users[id].status = "active"
           /\ \/ audience.users[id][field] = Null
              \/ audience.users[id][field] \in value \ {"null"}
              \/ field = "subscription_tier" /\ audience.users[id][field] = ""}

\* C23 witness: the rule {subscription_tier: {in: [premium, null]}} resolved
\* the user whose tier is NULL and not the user whose tier is free.
C23_Witness ==
  /\ audience.resolved
  /\ audience.targeting.segment = "present"
  /\ audience.targeting.filter_rules =
       <<Rule("subscription_tier", "in", {"premium", "null"})>>
  /\ audience.users[1] = [status |-> "active", subscription_tier |-> Null]
  /\ audience.users[2] = [status |-> "active", subscription_tier |-> "free"]
  /\ audience.recipients = {1}

\* The days the relative expression of a condition stands for.
DaysBack(value) ==
  IF value.unit \in {"day", "days"} THEN value.num
  ELSE IF value.unit \in {"week", "weeks"} THEN value.num * DaysPerWeek
  ELSE value.num * DaysPerMonth

\* C24: a relative expression '-N unit' is resolved against the clock at each
\* resolution: every evaluation of {date_created: {gte: '-N unit'}} matches
\* exactly the active users created at or after its own time minus N units.
C24_RelativeTimeResolvedAtEvaluation ==
  \A i \in DOMAIN audience.evals :
    LET rule == audience.targeting.filter_rules[1]
        e == audience.evals[i]
    IN ( /\ rule.op = "gte"
         /\ rule.value.sign = "-"
         /\ rule.value.unit \in {"day", "days", "week", "weeks", "month", "months"} ) =>
         e.matched =
           {id \in UserIds :
              /\ audience.users[id].status = "active"
              /\ audience.users[id].date_created >= e.at - DaysBack(rule.value)}

\* C24 witness: {date_created: {gte: '-7 days'}} evaluated on day 0 and again
\* 8 days later: the user created on day 0 matched the first evaluation
\* (threshold day -7) and not the second (threshold day 1).
C24_Witness ==
  /\ Len(audience.evals) = 2
  /\ audience.targeting.filter_rules =
       <<DateRule("date_created", "gte", DateValue("-", 7, "days"))>>
  /\ audience.evals[1].at = 0
  /\ audience.evals[2].at = 8
  /\ audience.users[1].date_created = 0
  /\ 1 \in audience.evals[1].matched
  /\ 1 \notin audience.evals[2].matched

\* C25: prepare_message_text applied to a body with one flat tag, such as
\* <b>Hi</b> 100% done!, returns the content between the unescaped markers of
\* the tag (*Hi*) and every reserved character of the plain spans preceded by
\* a backslash.
C25_FlatTagsConverted ==
  \A f \in FlatTagged :
    (deliv.prepared.done /\ deliv.text = f.body) =>
      deliv.prepared.prepared = f.expected

\* The text without the backslashes that escape: a backslash makes the
\* character after it an ordinary one and is itself dropped.
RECURSIVE Unescape(_)
Unescape(t) ==
  IF t = <<>> THEN <<>>
  ELSE IF Head(t) = Backslash /\ Len(t) >= 2
       THEN <<t[2]>> \o Unescape(SubSeq(t, 3, Len(t)))
       ELSE <<Head(t)>> \o Unescape(Tail(t))

\* C26: for every body without a recognized tag, prepare_message_text returns
\* the body with each reserved character escaped, and unescaping the result
\* gives back the body exactly, also when the body contains backslashes.
C26_EscapeRoundTrip ==
  (deliv.prepared.done /\ ~has_html(deliv.text)) =>
    /\ deliv.prepared.prepared = escape_markdown_v2(deliv.text)
    /\ Unescape(deliv.prepared.prepared) = deliv.text

\* C27: send_broadcast_action delivers its broadcast to the users selected in
\* the admin list: the recipients the launched run resolves are exactly the
\* selected active users, and total_recipients of the run is their number.
C27_ActionSendsToSelected ==
  audience.resolved =>
    LET chosen == {id \in audience.selected : audience.users[id].status = "active"}
    IN /\ audience.recipients = chosen
       /\ db.total_recipients = Cardinality(chosen)

\* C28: a campaign record is never deleted while its status is sending, also
\* when the delete request interleaves with a run that is just switching the
\* status to sending: no step takes a record whose status is sending away.
C28_NeverDeletedWhileSending ==
  [][db.status = "sending" => db'.status # "none"]_vars

\* The answer that decided the last send: that to the plain-text retry when
\* there was one, else the first.
LastAnswer(d) == IF d.last.second # NoAnswer THEN d.last.second ELSE d.last.first

\* C29: each processed recipient increments exactly one of sent_count and
\* failed_count by exactly 1, sent iff the API answered ok (failed for
\* 400/403, 429, timeout or exception); so after i recipients have been
\* processed sent + failed = i, and neither counter decreases within the run.
C29_OneCounterPerRecipient ==
  [][ \A w \in Workers :
        /\ SendStep(w) =>
             IF LastAnswer(deliv').kind = "ok"
             THEN /\ run'[w].sent_count = run[w].sent_count + 1
                  /\ run'[w].failed_count = run[w].failed_count
             ELSE /\ run'[w].sent_count = run[w].sent_count
                  /\ run'[w].failed_count = run[w].failed_count + 1
        /\ run'[w].pc \in SendingPcs =>
             /\ run'[w].sent_count + run'[w].failed_count = Len(deliv'.attempts)
             /\ run'[w].sent_count >= run[w].sent_count
             /\ run'[w].failed_count >= run[w].failed_count ]_vars

\* C29 witness: of two recipients processed one was sent and the other, whose
\* request timed out, was counted as failed.
C29_Witness ==
  /\ run[1].pc \in SendingPcs
  /\ deliv.attempts = <<0, 1>>
  /\ deliv.last.first.kind = "exception"
  /\ run[1].sent_count = 1
  /\ run[1].failed_count = 1

\* C30: during a run the durable record is checkpointed with the current
\* counters at least once per roughly 10% of the total processed, for every
\* total: the recipients processed and not yet in the record never number
\* more than two tenths of the total.
C30_CheckpointEveryTenth ==
  \A w \in Workers :
    InLoop(run[w]) =>
      run[w].sent_count + run[w].failed_count - Done(db)
        <= 2 * (run[w].total \div CheckpointParts + 1)

\* C31: the number of Progress Store writes made inside the recipient loop of
\* one run is bounded independently of the total (never more than 200), the
\* last recipient always triggers a write, and for large totals the store is
\* not written on every message.
C31_ProgressWritesBounded ==
  \A w \in Workers :
    (deliv.writes.counted /\ run[w].pc \in SendingPcs) =>
      /\ deliv.writes.n <= 2 * ProgressUpdates
      /\ (run[w].pc = "final" /\ ~run[w].cancelled) =>
           /\ progress.sent + progress.failed = run[w].total
           /\ run[w].total >= 2 * ProgressUpdates => deliv.writes.n < run[w].total

\* C31 witness: a run over 1000 recipients has left its loop with 101 writes
\* of the Progress Store, the last of them for the last recipient.
C31_Witness ==
  /\ run[1].pc = "final"
  /\ run[1].total = 1000
  /\ deliv.writes.n = ProgressUpdates + 1
  /\ progress.sent + progress.failed = 1000

\* C32: when a run that was not cancelled writes its terminal status, the
\* durable last_error is the error of the most recently failed recipient of
\* that run, and is empty exactly when no recipient of the run failed.
C32_LastErrorOfRun ==
  [][\A w \in Workers :
       ( /\ db.status # "none"
         /\ ~run[w].cancelled
         /\ \/ run[w].pc = "final" /\ run'[w].pc = "final_progress"
            \/ run[w].pc = "resolve" /\ run'[w].pc = "idle" )
       => /\ db'.last_error = run[w].last_error
          /\ run[w].failed_count = 0 <=> db'.last_error = ""]_vars

\* C33: with no segment set, target_audience all resolves to every active
\* user, premium to exactly the active users whose tier is premium or basic,
\* and free to exactly the active users whose tier is free, empty or NULL.
C33_LegacyAudiences ==
  (audience.resolved /\ audience.targeting.segment = "none") =>
    LET active == {id \in UserIds : audience.users[id].status = "active"}
        tiers == CASE audience.targeting.target_audience = "premium" ->
                        {"premium", "basic"}
                   [] audience.targeting.target_audience = "free" ->
                        {"free", "", Null}
                   [] OTHER -> {"premium", "basic", "free", "", Null}
    IN audience.recipients =
         {id \in active : audience.users[id].subscription_tier \in tiers}

\* C34: every API request of a run, the plain-text resend after a parse
\* rejection included, is preceded by its own rate-limiter acquire: a send
\* makes no more requests than the acquires made for it.
C34_AcquirePerRequest ==
  [][\A w \in Workers :
       SendStep(w) =>
         Len(deliv'.last.requests) <= run'[w].acquires - run[w].acquires]_vars

\* C35: a due campaign is enqueued at most once: successive runs of
\* scheduled_broadcast_check never leave two execute_broadcast tasks of the
\* campaign waiting in the queue.
C35_EnqueuedOnce == queue <= 1

\* C36: once cancel_broadcast_action has returned the campaign to draft, its
\* status does not become sending unless it is launched again, even when an
\* execute_broadcast task for it was already queued.
C36_DraftStaysUnsent ==
  [][db.status = "draft" => db'.status # "sending"]_vars

\* C37: whenever the Progress Store snapshot of the campaign shows a terminal
\* status (sent or cancelled), the durable record, while it exists, holds the
\* same terminal status and the same sent and failed counts.
C37_TerminalSnapshotBehindRecord ==
  (progress # NoProgress /\ progress.status \in {"sent", "cancelled"}
     /\ db.status # "none") =>
    /\ db.status = progress.status
    /\ db.sent_count = progress.sent
    /\ db.failed_count = progress.failed

\* The numbers of days a relative expression can stand for: the one of its
\* unit, or, for a unit parse_relative_time does not know, any positive
\* number of days.
StatedDurations(value) ==
  IF value.unit \in {"day", "days", "week", "weeks", "month", "months"}
  THEN {DaysBack(value)}
  ELSE 1..(MaxDay + DaysPerMonth + 1)

\* C38: no rule is dropped silently: for a rule with operator gte, lte, gt or
\* lt and a relative value, every evaluation matches only users satisfying the
\* comparison against its own time minus the stated duration, also when the
\* unit is not recognized; the set never widens to all active users.
C38_NoRuleDropped ==
  \A i \in DOMAIN audience.evals :
    LET rule == audience.targeting.filter_rules[1]
        e == audience.evals[i]
    IN (rule.op \in {"gte", "lte", "gt", "lt"} /\ rule.value.sign = "-") =>
         \E d \in StatedDurations(rule.value) :
           \A id \in e.matched :
             Compare(rule.op, audience.users[id].date_created, e.at - d)

====
